---------------------------- MODULE Spec2Model ----------------------------
(***************************************************************************)
(* A model of py_atimelogger.py: the aTimeLogger REST client.              *)
(*                                                                         *)
(* Python values are tagged records ([k |-> "int", n |-> 5], ...), a dict  *)
(* is a function from its keys, a list is a sequence.  A float holding an  *)
(* epoch instant is [sec, us]: sec + us / 10^6 with 0 <= us < 10^6.        *)
(***************************************************************************)
EXTENDS Integers, Sequences, FiniteSets, TLC

VARIABLES
    pc,        \* position of the caller: "idle", inside a scoped call, "returned"
    localtz,   \* UTC offset (seconds) of the process's local timezone
    call,      \* the public function called and its arguments
    session,   \* the requests.Session of the client: [open, closes, requests]
    params,    \* the query parameters assembled by the running operation
    response,  \* the response received by the running operation
    pending,   \* what the body of the `with` block ended with: a value or an exception
    result,    \* what the caller gets: a returned value or a raised exception
    trace,     \* the steps the running operation has executed, in order
    warns      \* number of warn() calls made by the running operation

vars == <<pc, localtz, call, session, params, response, pending, result, trace, warns>>

-----------------------------------------------------------------------------
(* Bounds of the model *)

\* wall-clock seconds of the datetimes tried lie at -MaxWall and +MaxWall
MaxWall == 2
\* a response text is made of at most MaxSegs fragments
MaxSegs == 3
\* the `intervals` list of a response body holds at most MaxIntervals records
MaxIntervals == 1

-----------------------------------------------------------------------------
(* Python values *)

None == [k |-> "none"]
IntVal(n) == [k |-> "int", n |-> n]
StrVal(s) == [k |-> "str", s |-> s]
BoolVal(b) == [k |-> "bool", b |-> b]

\* tzinfo values: "naive" stands for tzinfo=None
NoTz == "naive"
Tzs == {NoTz, "UTC", "+01:00"}
LocalOffsets == {0, -18000}

\* datetime values: wall-clock seconds since 1970-01-01T00:00:00, microsecond, tzinfo
Walls == {-MaxWall, MaxWall}
Micros == {0, 500000}
DateTimes == [wall : Walls, us : Micros, tz : Tzs]

\* an ISO-8601 string is the text of a datetime; other strings are not ISO-8601
IsoStr(d) == [k |-> "isostr", valid |-> TRUE, iso |-> d]
BadStr(empty) == [k |-> "isostr", valid |-> FALSE, empty |-> empty]
DtVal(d) == [k |-> "datetime", d |-> d]
FloatVal(sec, us) == [k |-> "float", sec |-> sec, us |-> us]
ListVal(len) == [k |-> "list", len |-> len]

IntLikes == {IntVal(0), IntVal(5), IntVal(-1), BoolVal(TRUE)}
TimeVals ==
    {None} \cup IntLikes \cup {FloatVal(1, 500000)}
    \cup {IsoStr(d) : d \in DateTimes} \cup {BadStr(TRUE), BadStr(FALSE)}
    \cup {DtVal(d) : d \in DateTimes} \cup {ListVal(0), ListVal(1)}

\* Python truth value of a time value (`if dt_lower_bound:`)
Truthy(v) ==
    CASE v.k = "none" -> FALSE
      [] v.k = "int" -> v.n # 0
      [] v.k = "bool" -> v.b
      [] v.k = "float" -> ~(v.sec = 0 /\ v.us = 0)
      [] v.k = "isostr" -> IF v.valid THEN TRUE ELSE ~v.empty
      [] v.k = "datetime" -> TRUE
      [] v.k = "list" -> v.len > 0

Return(v) == [k |-> "return", v |-> v]
Raise(exc) == [k |-> "raise", exc |-> exc]
NoResult == [k |-> "pending"]

-----------------------------------------------------------------------------
(* prepare_timestamp *)

UtcOffset(tz, local) ==
    CASE tz = NoTz -> local
      [] tz = "UTC" -> 0
      [] tz = "+01:00" -> 3600

\* datetime.timestamp(): the instant as float seconds since the epoch; a naive
\* datetime is taken as local time
timestamp(d, local) == [sec |-> d.wall - UtcOffset(d.tz, local), us |-> d.us]

\* int(x) of Python: truncation toward zero
PyInt(ts) == IF ts.sec < 0 /\ ts.us > 0 THEN ts.sec + 1 ELSE ts.sec

\* datetime.fromisoformat
fromisoformat(s) == IF s.valid THEN Return(s.iso) ELSE Raise("ValueError")

prepare_timestamp(time, local) ==
    CASE time.k = "isostr" ->
            LET dt == fromisoformat(time)
            IN  IF dt.k = "raise" THEN dt
                ELSE Return(PyInt(timestamp(dt.v, local)))
      [] time.k = "datetime" -> Return(PyInt(timestamp(time.d, local)))
      [] time.k = "int" -> Return(time.n)
      [] time.k = "bool" -> Return(IF time.b THEN 1 ELSE 0)
      [] time.k = "float" -> Return(PyInt([sec |-> time.sec, us |-> time.us]))
      [] OTHER -> Raise("TypeError")

-----------------------------------------------------------------------------
(* aTimeLogger.prepare_params *)

LIMIT_MAX == 2147483647
\* the defaults of prepare_params's own signature
DEFAULT_OFFSET == 0
DEFAULT_LIMIT == 100
DEFAULT_ORDER == StrVal("desc")
DEFAULT_RANGE == <<None, None>>

\* the value of a named argument, or the signature's default when not supplied
Arg(args, name, default) == IF name \in DOMAIN args THEN args[name] ELSE default

\* ','.join(types)
join(types) == [k |-> "csv", items |-> types]

\* one `if bound: params[key] = prepare_timestamp(bound)` step on a partial result
SetBound(acc, key, bound, local) ==
    IF acc.k = "raise" \/ ~Truthy(bound) THEN acc
    ELSE LET ts == prepare_timestamp(bound, local)
         IN  IF ts.k = "raise" THEN ts
             ELSE Return((key :> IntVal(ts.v)) @@ acc.v)

\* params.update(kwargs)
UpdateReplacing(p, kwargs) == kwargs
Update(p, kwargs) == kwargs @@ p

prepare_params(args, kwargs, local) ==
    LET range == Arg(args, "datetime_range", DEFAULT_RANGE)
        types == Arg(args, "types", << >>)
        state == Arg(args, "state", None)
        p0 == Return([limit |-> Arg(args, "limit", IntVal(DEFAULT_LIMIT)),
                      offset |-> Arg(args, "offset", IntVal(DEFAULT_OFFSET)),
                      order |-> Arg(args, "order", DEFAULT_ORDER)])
        p1 == SetBound(p0, "from", range[1], local)
        p2 == SetBound(p1, "to", range[2], local)
    IN  IF p2.k = "raise" THEN p2
        ELSE LET p3 == IF Len(types) > 0 THEN ("types" :> join(types)) @@ p2.v ELSE p2.v
                 p4 == IF state # None /\ state.s # "" THEN ("state" :> state) @@ p3 ELSE p3
             IN  Return(Update(p4, kwargs))

\* the arguments tried: every datetime_range with the other arguments left to
\* their defaults, and every combination of the other arguments with a few ranges
Kwargs == { << >>, [from |-> IntVal(9)], [foo |-> IntVal(1)] }
Opt(name, vals) == { << >> } \cup { name :> v : v \in vals }
RangeArgs == Opt("datetime_range", TimeVals \X TimeVals)
FewRanges == { <<None, None>>, <<IntVal(5), None>>, <<None, IntVal(0)>> }
OtherArgs ==
    { a @@ b @@ c @@ d @@ e @@ f :
        a \in Opt("offset", {IntVal(3)}),
        b \in Opt("limit", {IntVal(7)}),
        c \in Opt("order", {StrVal("asc")}),
        d \in Opt("types", {<< >>, <<"a", "b">>}),
        e \in Opt("state", {None, StrVal(""), StrVal("active")}),
        f \in Opt("datetime_range", FewRanges) }
PrepareArgs == RangeArgs \cup OtherArgs

-----------------------------------------------------------------------------
(* Responses: status code, request, body text *)

\* decoded JSON values
JNull == [k |-> "null"]
JBool(b) == [k |-> "bool", b |-> b]
JNum(n) == [k |-> "num", n |-> n]
JStr(s) == [k |-> "str", s |-> s]
JArr(a) == [k |-> "arr", a |-> a]
JObj(o) == [k |-> "obj", o |-> o]

\* A body text is a sequence of pieces of text.  Letter case is not modelled:
\* the patterns of check_response are compiled with re.IGNORECASE.
TITLE_OPEN == "<title>"
TITLE_CLOSE == "</title>"
MESSAGE_OPEN == "<p><b>Message</b> "
DESCRIPTION_OPEN == "<p><b>Description</b> "
P_CLOSE == "</p>"
NEWLINE == "\\n"
AMP_ENTITY == "&amp;"

\* the fragments a non-JSON body text is made of
Fragments ==
    { <<TITLE_OPEN, "Not Found", TITLE_CLOSE>>,
      <<TITLE_OPEN>>,
      <<TITLE_CLOSE>>,
      <<MESSAGE_OPEN, "no such guid", AMP_ENTITY, P_CLOSE>>,
      <<DESCRIPTION_OPEN, "details", P_CLOSE>>,
      <<P_CLOSE>>,
      <<NEWLINE>>,
      <<"oops">> }

RECURSIVE Concat(_)
Concat(segs) == IF segs = << >> THEN << >> ELSE Head(segs) \o Concat(Tail(segs))

SegSeqs(n) == UNION { [1..m -> Fragments] : m \in 0..n }
Texts == { Concat(segs) : segs \in SegSeqs(MaxSegs) }

\* the text of a JSON string holding markup
TITLE_STRING == "<title>Oops</title>"
TextOf(str) ==
    IF str = TITLE_STRING THEN <<TITLE_OPEN, "Oops", TITLE_CLOSE>> ELSE <<str>>

\* json.dumps: a text whose JSON value is v
RECURSIVE Dumps(_)
RECURSIVE DumpsItems(_)
RECURSIVE DumpsMembers(_)
DumpsItems(a) == IF a = << >> THEN << >> ELSE Dumps(Head(a)) \o <<",">> \o DumpsItems(Tail(a))
DumpsMembers(o) ==
    IF DOMAIN o = {} THEN << >>
    ELSE LET key == CHOOSE key \in DOMAIN o : TRUE
         IN  <<"\"">> \o TextOf(key) \o <<"\":">> \o Dumps(o[key]) \o <<",">>
             \o DumpsMembers([x \in DOMAIN o \ {key} |-> o[x]])
Dumps(v) ==
    CASE v.k = "null" -> <<"null">>
      [] v.k = "bool" -> IF v.b THEN <<"true">> ELSE <<"false">>
      [] v.k = "num" -> <<"0-9">>
      [] v.k = "str" -> <<"\"">> \o TextOf(v.s) \o <<"\"">>
      [] v.k = "arr" -> <<"[">> \o DumpsItems(v.a) \o <<"]">>
      [] v.k = "obj" -> <<"{">> \o DumpsMembers(v.o) \o <<"}">>

TextBody(toks) == [k |-> "text", toks |-> toks]
JsonBody(v) == [k |-> "json", v |-> v]

\* response.text
text(resp) ==
    IF resp.body.k = "json" THEN Dumps(resp.body.v) ELSE resp.body.toks

Response(status, request, body) ==
    [k |-> "response", status_code |-> status, request |-> request, body |-> body]

StatusCodes == {200, 399, 400, 404, 499, 500, 599, 600}

-----------------------------------------------------------------------------
(* aTimeLogger.check_response *)

NoMatch == [k |-> "nomatch"]
Match(group) == [k |-> "match", group |-> group]

NoNewline(txt, i, j) == \A x \in (i + 1)..(j - 1) : txt[x] # NEWLINE

\* re.search(r"<title>(.*)</title>", text): the leftmost opening tag that has a
\* closing tag after it on the same line, up to the last such closing tag
SearchTitle(txt) ==
    LET Closes(i) == { j \in (i + 1)..Len(txt) : txt[j] = TITLE_CLOSE /\ NoNewline(txt, i, j) }
        Opens == { i \in 1..Len(txt) : txt[i] = TITLE_OPEN /\ Closes(i) # {} }
    IN  IF Opens = {} THEN NoMatch
        ELSE LET i == CHOOSE i \in Opens : \A x \in Opens : i <= x
                 j == CHOOSE j \in Closes(i) : \A x \in Closes(i) : j >= x
             IN  Match(SubSeq(txt, i + 1, j - 1))

\* re.search(r"<p><b>Message<\/b> (.*?)<\/p>", text), and the same for
\* Description: the leftmost opening that has a </p> after it on the same line,
\* up to the first such </p>
SearchParagraph(txt, open) ==
    LET Closes(i) == { j \in (i + 1)..Len(txt) : txt[j] = P_CLOSE /\ NoNewline(txt, i, j) }
        Opens == { i \in 1..Len(txt) : txt[i] = open /\ Closes(i) # {} }
    IN  IF Opens = {} THEN NoMatch
        ELSE LET i == CHOOSE i \in Opens : \A x \in Opens : i <= x
                 j == CHOOSE j \in Closes(i) : \A x \in Closes(i) : j <= x
             IN  Match(SubSeq(txt, i + 1, j - 1))

\* html.unescape
unescape(toks) == [i \in 1..Len(toks) |-> IF toks[i] = AMP_ENTITY THEN "&" ELSE toks[i]]

\* response.json() without keyword arguments
json(resp) ==
    IF resp.body.k = "json" THEN Return(resp.body.v) ELSE Raise("JSONDecodeError")

\* f"{title}: {reasons} for {request_info}.\n{details}"
HtmlMessage(title, reasons, request_info, details) ==
    [form |-> "html", title |-> title, reasons |-> reasons,
     request_info |-> request_info, details |-> details]
\* f"{response.status_code} {error_type}: for {request_info}.\n{payload}"
StatusMessage(status, error_type, request_info, payload) ==
    [form |-> "status", status_code |-> status, error_type |-> error_type,
     request_info |-> request_info, payload |-> payload]

HTTPError(msg, resp) ==
    [k |-> "raise", exc |-> "HTTPError", msg |-> msg, response |-> resp]

\* the error type of the status form
ErrorTypeSwapped(status) == IF status <= 500 THEN "Client Error" ELSE "Server Error"
ErrorType(status) == IF status < 500 THEN "Client Error" ELSE "Server Error"

\* the `if 400 <= response.status_code < 600` test
IsErrorClientOnly(status) == 400 <= status /\ status < 500
IsError(status) == 400 <= status /\ status < 600

\* the body of the outer `try`: AttributeError when the title pattern finds nothing
TryHtml(resp) ==
    LET txt == text(resp)
        title == SearchTitle(txt)
        reasons_match == SearchParagraph(txt, MESSAGE_OPEN)
        details_match == SearchParagraph(txt, DESCRIPTION_OPEN)
    IN  IF title = NoMatch THEN Raise("AttributeError")
        ELSE Return(HtmlMessage(
                title.group,
                IF reasons_match # NoMatch THEN unescape(reasons_match.group) ELSE << >>,
                resp.request,
                IF details_match # NoMatch THEN unescape(details_match.group) ELSE << >>))

\* the handler `except AttributeError:`
ExceptAttributeError(resp) ==
    LET error_type == ErrorType(resp.status_code)
        js == json(resp)
    IN  IF js.k = "return"
        THEN Return(StatusMessage(resp.status_code, error_type, resp.request,
                                  [k |-> "json", v |-> js.v]))
        ELSE IF js.exc = "JSONDecodeError"
        THEN Return(StatusMessage(resp.status_code, error_type, resp.request,
                                  [k |-> "text", toks |-> text(resp)]))
        ELSE js

\* returns Return(None) or the exception raised
check_response(resp) ==
    IF IsError(resp.status_code)
    THEN LET tried == TryHtml(resp)
             error_msg == IF tried.k = "raise" /\ tried.exc = "AttributeError"
                          THEN ExceptAttributeError(resp)
                          ELSE tried
         IN  IF error_msg.k = "raise" THEN error_msg
             ELSE HTTPError(error_msg.v, resp)
    ELSE Return(None)

\* the responses given to check_response directly
ErrorJson ==
    { JObj([error |-> JStr("bad request")]), JObj([error |-> JStr(TITLE_STRING)]),
      JArr(<< >>), JNum(0), JObj(<< >>) }
CheckBodies == { TextBody(t) : t \in Texts } \cup { JsonBody(v) : v \in ErrorJson }

-----------------------------------------------------------------------------
(* aTimeLogger._extract_tzinfo_4decode and aTimeLogger._object_hook *)

\* the tzinfo of one bound of the range, or the exception of fromisoformat
BoundTz(bound) ==
    CASE bound.k = "isostr" ->
            LET dt == fromisoformat(bound)
            IN  IF dt.k = "raise" THEN dt ELSE Return(dt.v.tz)
      [] bound.k = "datetime" -> Return(bound.d.tz)
      [] OTHER -> Return(NoTz)

\* _extract_tzinfo_4decode returning the upper bound's tzinfo when both bounds have one
ExtractPreferUpper(datetime_range) ==
    LET tz1 == BoundTz(datetime_range[1])
        tz2 == BoundTz(datetime_range[2])
    IN  IF tz1.k = "raise" THEN [r |-> tz1, warn |-> FALSE]
        ELSE IF tz2.k = "raise" THEN [r |-> tz2, warn |-> FALSE]
        ELSE IF tz1.v # NoTz /\ tz2.v # NoTz
             THEN [r |-> Return(tz2.v), warn |-> tz1.v # tz2.v]
             ELSE [r |-> Return(IF tz1.v # NoTz THEN tz1.v ELSE tz2.v), warn |-> FALSE]

\* [r |-> the tzinfo returned or the exception raised, warn |-> whether warn() ran]
_extract_tzinfo_4decode(datetime_range) ==
    LET tz1 == BoundTz(datetime_range[1])
        tz2 == BoundTz(datetime_range[2])
    IN  IF tz1.k = "raise" THEN [r |-> tz1, warn |-> FALSE]
        ELSE IF tz2.k = "raise" THEN [r |-> tz2, warn |-> FALSE]
        ELSE IF tz1.v # NoTz /\ tz2.v # NoTz
             THEN [r |-> Return(tz1.v), warn |-> tz1.v # tz2.v]
             ELSE [r |-> Return(IF tz1.v # NoTz THEN tz1.v ELSE tz2.v), warn |-> FALSE]

\* datetime.fromtimestamp(ts, tz) of whole seconds: local time when tz is None
fromtimestamp(ts, tz, local) == [wall |-> ts + UtcOffset(tz, local), us |-> 0, tz |-> tz]

\* run a step on the value of an unfinished computation; an exception passes through
Bind(acc, Step(_)) == IF acc.k = "raise" THEN acc ELSE Step(acc.v)

\* `if key in dct: dct[key] = datetime.fromtimestamp(dct[key], tz)`
HookTime(dct, key, tz, local) ==
    IF key \notin DOMAIN dct THEN Return(dct)
    ELSE IF dct[key].k = "num"
         THEN Return([dct EXCEPT ![key] = DtVal(fromtimestamp(dct[key].n, tz, local))])
         ELSE Raise("TypeError")

\* `if ('comment' in dct) and dct['comment'] == '': dct['comment'] = None`
HookCommentKeepEmpty(dct) == Return(dct)
HookComment(dct) ==
    IF "comment" \in DOMAIN dct /\ dct["comment"] = JStr("")
    THEN Return([dct EXCEPT !["comment"] = JNull])
    ELSE Return(dct)

\* `if 'type' in dct: dct['typeGuid'] = dct.pop('type')['guid']`
HookType(dct) ==
    IF "type" \notin DOMAIN dct THEN Return(dct)
    ELSE LET popped == dct["type"]
             rest == [x \in DOMAIN dct \ {"type"} |-> dct[x]]
         IN  IF popped.k = "obj"
             THEN IF "guid" \in DOMAIN popped.o
                  THEN Return(("typeGuid" :> popped.o["guid"]) @@ rest)
                  ELSE Raise("KeyError")
             ELSE Raise("TypeError")

_object_hook(dct, tz, local) ==
    LET From(d) == HookTime(d, "from", tz, local)
        To(d) == HookTime(d, "to", tz, local)
    IN  Bind(Bind(Bind(From(dct), To), HookComment), HookType)

\* the keyword arguments given to json.loads: no hook, or the lambda of get_intervals
NoHook == [k |-> "none"]
IntervalsHook(datetime_range) == [k |-> "object_hook", datetime_range |-> datetime_range]

\* `lambda dct: self._object_hook(dct, tz=self._extract_tzinfo_4decode(datetime_range))`
CallHook(dct, hook, local) ==
    LET tz == _extract_tzinfo_4decode(hook.datetime_range)
    IN  IF tz.r.k = "raise" THEN tz.r
        ELSE LET hooked == _object_hook(dct, tz.r.v, local)
             IN  IF hooked.k = "raise" THEN hooked ELSE Return(JObj(hooked.v))

\* json.loads(text, object_hook=...): every object is given to the hook once its
\* members are parsed, innermost first.  [r |-> value or exception, n |-> hook calls]
RECURSIVE Loads(_, _, _)
RECURSIVE LoadsItems(_, _, _)
RECURSIVE LoadsMembers(_, _, _)
LoadsItems(a, hook, local) ==
    IF a = << >> THEN [r |-> Return(<< >>), n |-> 0]
    ELSE LET h == Loads(Head(a), hook, local)
         IN  IF h.r.k = "raise" THEN h
             ELSE LET t == LoadsItems(Tail(a), hook, local)
                  IN  IF t.r.k = "raise" THEN [r |-> t.r, n |-> h.n + t.n]
                      ELSE [r |-> Return(<<h.r.v>> \o t.r.v), n |-> h.n + t.n]
LoadsMembers(o, hook, local) ==
    IF DOMAIN o = {} THEN [r |-> Return(<< >>), n |-> 0]
    ELSE LET key == CHOOSE key \in DOMAIN o : TRUE
             h == Loads(o[key], hook, local)
         IN  IF h.r.k = "raise" THEN h
             ELSE LET t == LoadsMembers([x \in DOMAIN o \ {key} |-> o[x]], hook, local)
                  IN  IF t.r.k = "raise" THEN [r |-> t.r, n |-> h.n + t.n]
                      ELSE [r |-> Return((key :> h.r.v) @@ t.r.v), n |-> h.n + t.n]
Loads(v, hook, local) ==
    CASE v.k = "arr" ->
            LET items == LoadsItems(v.a, hook, local)
            IN  IF items.r.k = "raise" THEN items
                ELSE [r |-> Return(JArr(items.r.v)), n |-> items.n]
      [] v.k = "obj" ->
            LET members == LoadsMembers(v.o, hook, local)
            IN  IF members.r.k = "raise" THEN members
                ELSE IF hook = NoHook THEN [r |-> Return(JObj(members.r.v)), n |-> members.n]
                ELSE [r |-> CallHook(members.r.v, hook, local), n |-> members.n + 1]
      [] OTHER -> [r |-> Return(v), n |-> 0]

\* response.json(**kwargs)
json_kwargs(resp, hook, local) ==
    IF resp.body.k = "json" THEN Loads(resp.body.v, hook, local)
    ELSE [r |-> Raise("JSONDecodeError"), n |-> 0]

-----------------------------------------------------------------------------
(* aTimeLogger.decode_response *)

\* Python truth value of a decoded value (`not decoded_text['']`)
JTruthy(v) ==
    CASE v.k = "null" -> FALSE
      [] v.k = "bool" -> v.b
      [] v.k = "num" -> v.n # 0
      [] v.k = "str" -> v.s # ""
      [] v.k = "arr" -> v.a # << >>
      [] v.k = "obj" -> DOMAIN v.o # {}
      [] OTHER -> TRUE

\* `if ('' in decoded_text) and not decoded_text['']: del decoded_text['']`
StripAlways(decoded) ==
    IF decoded.k = "obj" /\ "" \in DOMAIN decoded.o
    THEN Return(JObj([x \in DOMAIN decoded.o \ {""} |-> decoded.o[x]]))
    ELSE Return(decoded)
StripNever(decoded) == Return(decoded)
Strip(decoded) ==
    CASE decoded.k = "obj" ->
            IF "" \in DOMAIN decoded.o /\ ~JTruthy(decoded.o[""])
            THEN Return(JObj([x \in DOMAIN decoded.o \ {""} |-> decoded.o[x]]))
            ELSE Return(decoded)
      [] decoded.k = "arr" ->
            \* '' in a list is membership; indexing the list by '' is a TypeError
            IF \E i \in 1..Len(decoded.a) : decoded.a[i] = JStr("")
            THEN Raise("TypeError") ELSE Return(decoded)
      [] OTHER ->
            \* '' in a str is always true and str[''] a TypeError; the other
            \* JSON values are not containers
            Raise("TypeError")

\* [r |-> the mapping returned or the exception raised, n |-> hook calls]
decode_response(resp, hook, local) ==
    LET decoded_text == json_kwargs(resp, hook, local)
    IN  IF decoded_text.r.k = "raise" THEN decoded_text
        ELSE [r |-> Strip(decoded_text.r.v), n |-> decoded_text.n]

\* the response bodies tried
FromTo ==
    { << >>, [from |-> JNum(1700000000), to |-> JNum(1700003600)],
      [from |-> JNum(1700000000)], [to |-> JNull] }
Comments == Opt("comment", {JStr(""), JStr("note")})
TypeRefs == Opt("type", {JObj([guid |-> JStr("X")]), JObj(<< >>), JStr("X")})
Records ==
    { JObj([guid |-> JStr("G")] @@ a @@ b @@ c) :
        a \in FromTo, b \in Comments, c \in TypeRefs }
RecordLists == UNION { [1..m -> Records] : m \in 0..MaxIntervals }
EmptyKeyValues ==
    {JBool(FALSE), JBool(TRUE), JNull, JNum(0), JStr(""), JStr("x"), JArr(<< >>)}
Metas == { JObj([page |-> JObj([to |-> JNum(1700003600), comment |-> JStr("")])]) }
Envelopes ==
    { JObj(a @@ b @@ c) :
        a \in Opt("", EmptyKeyValues),
        b \in Opt("intervals", {JArr(l) : l \in RecordLists}),
        c \in Opt("meta", Metas) }
NonMappings == { JArr(<< >>), JArr(<<JStr("")>>), JNum(1), JStr("s") }
DecodeBodies ==
    { JsonBody(v) : v \in Envelopes \cup NonMappings } \cup { TextBody(<<"oops">>) }
HookRanges ==
    { <<None, None>>,
      <<DtVal([wall |-> MaxWall, us |-> 0, tz |-> "UTC"]), None>>,
      <<IsoStr([wall |-> MaxWall, us |-> 0, tz |-> "+01:00"]),
        DtVal([wall |-> MaxWall, us |-> 0, tz |-> "UTC"])>> }
Hooks == {NoHook} \cup { IntervalsHook(r) : r \in HookRanges }

-----------------------------------------------------------------------------
(* The client as a scoped resource, and the three resource operations *)

\* aTimeLogger.__init__: self.session = requests.Session()
Session == [open |-> TRUE, closes |-> 0, requests |-> 0]

\* aTimeLogger.close: self.session.close()
close(s) == [s EXCEPT !.open = FALSE, !.closes = @ + 1]

\* aTimeLogger.__exit__(*exc): closes, and returns None: the exception, if any,
\* is not suppressed
ExitOnSuccessOnly(s, exc) ==
    [session |-> IF exc.k = "raise" THEN s ELSE close(s), suppress |-> FALSE]
__exit__(s, exc) == [session |-> close(s), suppress |-> FALSE]

\* the `model` segment of the URL each operation requests
Model(fn) ==
    CASE fn = "get_types" -> "types"
      [] fn = "get_activities" -> "activities"
      [] fn = "get_intervals" -> "intervals"

\* the parameters an operation assembles from its own arguments and defaults
OpParams(fn, args, local) ==
    CASE fn = "get_types" ->
            LET p == prepare_params([order |-> Arg(args, "order", DEFAULT_ORDER)], << >>, local)
            IN  IF p.k = "raise" THEN p
                ELSE Return([x \in DOMAIN p.v \ {"limit", "offset"} |-> p.v[x]])
      [] fn = "get_activities" ->
            prepare_params([offset |-> Arg(args, "offset", IntVal(DEFAULT_OFFSET)),
                            limit |-> Arg(args, "limit", IntVal(LIMIT_MAX)),
                            state |-> Arg(args, "state", None),
                            order |-> Arg(args, "order", DEFAULT_ORDER)], << >>, local)
      [] fn = "get_intervals" ->
            prepare_params([offset |-> Arg(args, "offset", IntVal(DEFAULT_OFFSET)),
                            limit |-> Arg(args, "limit", IntVal(LIMIT_MAX)),
                            datetime_range |-> Arg(args, "datetime_range", DEFAULT_RANGE),
                            types |-> Arg(args, "types", << >>),
                            order |-> Arg(args, "order", DEFAULT_ORDER)], << >>, local)

\* the keyword arguments an operation gives to decode_response
OpHook(fn, args) ==
    IF fn = "get_intervals"
    THEN IntervalsHook(Arg(args, "datetime_range", DEFAULT_RANGE))
    ELSE NoHook

\* the calls of the module-level functions tried
FlowTimes ==
    { None, IntVal(0),
      DtVal([wall |-> MaxWall, us |-> 0, tz |-> "UTC"]),
      DtVal([wall |-> MaxWall, us |-> 0, tz |-> "+01:00"]),
      DtVal([wall |-> MaxWall, us |-> 0, tz |-> NoTz]),
      IsoStr([wall |-> -MaxWall, us |-> 500000, tz |-> "+01:00"]),
      BadStr(TRUE), ListVal(1) }
FlowCalls ==
    { [fn |-> "get_types", args |-> a] : a \in Opt("order", {StrVal("asc")}) }
    \cup { [fn |-> "get_activities", args |-> a @@ b] :
            a \in Opt("limit", {IntVal(7)}), b \in Opt("state", {None, StrVal("active")}) }
    \cup { [fn |-> "get_intervals", args |-> a @@ b] :
            a \in Opt("limit", {IntVal(7)}),
            b \in Opt("datetime_range", FlowTimes \X FlowTimes) }

FullRecord ==
    JObj([guid |-> JStr("G"), from |-> JNum(1700000000), to |-> JNum(1700003600),
          comment |-> JStr(""), type |-> JObj([guid |-> JStr("X")])])
FlowBodies ==
    { TextBody(<<TITLE_OPEN, "Not Found", TITLE_CLOSE, MESSAGE_OPEN, "no such guid", P_CLOSE>>),
      TextBody(<<"oops">>),
      JsonBody(JObj([error |-> JStr("bad request")])),
      JsonBody(JObj(("" :> JBool(TRUE)) @@ [intervals |-> JArr(<<FullRecord>>)])),
      JsonBody(JObj(("" :> JBool(FALSE)) @@ [intervals |-> JArr(<<FullRecord>>)])),
      JsonBody(JObj([intervals |-> JArr(<<JObj([type |-> JObj(<< >>)])>>)])),
      JsonBody(JArr(<< >>)) }

-----------------------------------------------------------------------------
(* The state machine *)

NoCall == [fn |-> "none"]
NoSession == [open |-> FALSE, closes |-> 0, requests |-> 0]
NoParams == [k |-> "none"]
NoResponse == [k |-> "none"]
NoExc == [k |-> "none"]

Init ==
    /\ pc = "idle"
    /\ localtz \in LocalOffsets
    /\ call = NoCall
    /\ session = NoSession
    /\ params = NoParams
    /\ response = NoResponse
    /\ pending = NoExc
    /\ result = NoResult
    /\ trace = << >>
    /\ warns = 0

\* a direct call of the module-level function prepare_timestamp
CallPrepareTimestamp ==
    /\ pc = "idle"
    /\ \E t \in TimeVals :
        /\ call' = [fn |-> "prepare_timestamp", time |-> t]
        /\ result' = prepare_timestamp(t, localtz)
    /\ pc' = "returned"
    /\ UNCHANGED <<localtz, session, params, response, pending, trace, warns>>

\* a direct call of the method prepare_params
CallPrepareParams ==
    /\ pc = "idle"
    /\ \E args \in PrepareArgs, kwargs \in Kwargs :
        /\ call' = [fn |-> "prepare_params", args |-> args, kwargs |-> kwargs]
        /\ result' = prepare_params(args, kwargs, localtz)
    /\ pc' = "returned"
    /\ UNCHANGED <<localtz, session, params, response, pending, trace, warns>>

\* a direct call of the method check_response
CallCheckResponse ==
    /\ pc = "idle"
    /\ \E status \in StatusCodes, body \in CheckBodies :
        LET r == Response(status, [method |-> "GET", model |-> "types"], body)
        IN  /\ call' = [fn |-> "check_response", response |-> r]
            /\ result' = check_response(r)
    /\ pc' = "returned"
    /\ UNCHANGED <<localtz, session, params, response, pending, trace, warns>>

\* a direct call of the method decode_response, without a hook or with the hook
\* get_intervals installs
CallDecodeResponse ==
    /\ pc = "idle"
    /\ \E body \in DecodeBodies, hook \in Hooks :
        LET r == Response(200, [method |-> "GET", model |-> "intervals"], body)
            d == decode_response(r, hook, localtz)
        IN  /\ call' = [fn |-> "decode_response", response |-> r, hook |-> hook]
            /\ result' = d.r
            /\ warns' = IF hook # NoHook /\ _extract_tzinfo_4decode(hook.datetime_range).warn
                         THEN d.n ELSE 0
    /\ pc' = "returned"
    /\ UNCHANGED <<localtz, session, params, response, pending, trace>>

\* get_types / get_activities / get_intervals of the module:
\* `with aTimeLogger(username, password) as atl:`
Enter ==
    /\ pc = "idle"
    /\ \E c \in FlowCalls : call' = c
    /\ session' = Session
    /\ pc' = "entered"
    /\ UNCHANGED <<localtz, params, response, pending, result, trace, warns>>

\* the operation assembles its parameters
DoPrepareParams ==
    /\ pc = "entered"
    /\ LET p == OpParams(call.fn, call.args, localtz)
       IN  IF p.k = "raise"
           THEN /\ pending' = p
                /\ pc' = "exiting"
                /\ UNCHANGED params
           ELSE /\ params' = p.v
                /\ pc' = "prepared"
                /\ UNCHANGED pending
    /\ trace' = Append(trace, "prepare_params")
    /\ UNCHANGED <<localtz, call, session, response, result, warns>>

\* self.request(method='get', ...): the server answers
DoRequest ==
    /\ pc = "prepared"
    /\ \E status \in StatusCodes, body \in FlowBodies :
        response' = Response(status, [method |-> "GET", model |-> Model(call.fn)], body)
    /\ session' = [session EXCEPT !.requests = @ + 1]
    /\ trace' = Append(trace, "request")
    /\ pc' = "requested"
    /\ UNCHANGED <<localtz, call, params, pending, result, warns>>

\* self.request(...): the transport fails and session.request raises
DoRequestFails ==
    /\ pc = "prepared"
    /\ session' = [session EXCEPT !.requests = @ + 1]
    /\ trace' = Append(trace, "request")
    /\ pending' = Raise("ConnectionError")
    /\ pc' = "exiting"
    /\ UNCHANGED <<localtz, call, params, response, result, warns>>

\* self.check_response(response)
DoCheckResponseRetrying ==
    /\ pc = "requested"
    /\ pc' = (IF check_response(response).k = "raise" THEN "prepared" ELSE "checked")
    /\ trace' = Append(trace, "check_response")
    /\ UNCHANGED <<localtz, call, session, params, response, pending, result, warns>>
DoCheckResponse ==
    /\ pc = "requested"
    /\ LET c == check_response(response)
       IN  IF c.k = "raise"
           THEN pending' = c /\ pc' = "exiting"
           ELSE pc' = "checked" /\ UNCHANGED pending
    /\ trace' = Append(trace, "check_response")
    /\ UNCHANGED <<localtz, call, session, params, response, result, warns>>

\* return self.decode_response(response, ...)
DoDecodeResponse ==
    /\ pc = "checked"
    /\ LET hook == OpHook(call.fn, call.args)
           d == decode_response(response, hook, localtz)
       IN  /\ pending' = d.r
           /\ warns' = IF hook # NoHook /\ _extract_tzinfo_4decode(hook.datetime_range).warn
                        THEN d.n ELSE 0
    /\ trace' = Append(trace, "decode_response")
    /\ pc' = "exiting"
    /\ UNCHANGED <<localtz, call, session, params, response, result>>

\* the `with` block is left, by `return` or by an exception: __exit__ runs, and
\* the exception goes on to the caller unless __exit__ returned a true value
Exit ==
    /\ pc = "exiting"
    /\ LET e == __exit__(session, pending)
       IN  /\ session' = e.session
           /\ result' = IF pending.k = "raise" /\ e.suppress THEN Return(None) ELSE pending
    /\ pc' = "returned"
    /\ UNCHANGED <<localtz, call, params, response, pending, trace, warns>>

\* the caller takes the result; the next call starts afresh
Finish ==
    /\ pc = "returned"
    /\ pc' = "idle"
    /\ call' = NoCall
    /\ session' = NoSession
    /\ params' = NoParams
    /\ response' = NoResponse
    /\ pending' = NoExc
    /\ result' = NoResult
    /\ trace' = << >>
    /\ warns' = 0
    /\ UNCHANGED localtz

Next ==
    \/ CallPrepareTimestamp
    \/ CallPrepareParams
    \/ CallCheckResponse
    \/ CallDecodeResponse
    \/ Enter
    \/ DoPrepareParams
    \/ DoRequest
    \/ DoRequestFails
    \/ DoCheckResponse
    \/ DoDecodeResponse
    \/ Exit
    \/ Finish

Spec == Init /\ [][Next]_vars

-----------------------------------------------------------------------------
(* Properties *)

Scoped == call.fn \in {"get_types", "get_activities", "get_intervals"}
InScope == pc \in {"entered", "prepared", "requested", "checked", "exiting"}
Steps == <<"prepare_params", "request", "check_response", "decode_response">>
ErrorStatus(status) == status \in 400..599

\* C1: a client used as a scoped resource (the module-level get_types,
\* get_activities, get_intervals) has its session open and never closed while
\* the scope is active, and closed exactly once when the scope has been left,
\* whether the body returned or raised; what the body raised is what the caller
\* gets.
C1_ScopedSessionClosedOnce ==
    /\ InScope => session.open /\ session.closes = 0
    /\ pc = "returned" /\ Scoped =>
        /\ ~session.open
        /\ session.closes = 1
        /\ result = pending
        /\ (ErrorStatus(IF response = NoResponse THEN 0 ELSE response.status_code)
                => result.k = "raise")

\* C1 witness: a scope was left by an HTTPError, the session closed once
C1_Witness ==
    /\ pc = "returned" /\ call.fn = "get_intervals"
    /\ result.k = "raise" /\ result.exc = "HTTPError"
    /\ session.closes = 1

\* C2: check_response raises an HTTPError carrying the response it was given
\* when the status code is in 400..599, whatever the body, and no other
\* exception; for any other status code it returns None.
C2_CheckResponseRaisesHTTPError ==
    /\ pc = "returned" /\ call.fn = "check_response" =>
        IF ErrorStatus(call.response.status_code)
        THEN /\ result.k = "raise"
             /\ result.exc = "HTTPError"
             /\ result.response = call.response
        ELSE result = Return(None)
    /\ Scoped /\ Len(trace) >= 3 =>
        IF ErrorStatus(response.status_code)
        THEN /\ pending.k = "raise"
             /\ pending.exc = "HTTPError"
             /\ pending.response = response
             /\ Len(trace) = 3
        ELSE pc = "checked" \/ Len(trace) = 4

\* C2 witness: a 599 response whose body is neither HTML with a title nor JSON
C2_Witness ==
    /\ pc = "returned" /\ call.fn = "check_response"
    /\ call.response.status_code = 599
    /\ call.response.body = TextBody(<<TITLE_OPEN>>)
    /\ result.k = "raise" /\ result.exc = "HTTPError"

\* C3: a resource operation runs prepare_params, request, check_response,
\* decode_response in this order, issues at most one request, returns a value
\* only after all four steps on a response whose status is outside 400..599, and
\* on a response with a status in 400..599 raises without running
\* decode_response and without returning anything.
C3_OneRequestAllOrNothing ==
    Scoped =>
        /\ Len(trace) <= Len(Steps) /\ trace = SubSeq(Steps, 1, Len(trace))
        /\ session.requests = (IF Len(trace) >= 2 THEN 1 ELSE 0)
        /\ (response # NoResponse) => session.requests = 1
        /\ pc = "returned" /\ result.k = "return" =>
            /\ trace = Steps
            /\ response # NoResponse
            /\ ~ErrorStatus(response.status_code)
            /\ result = decode_response(response, OpHook(call.fn, call.args), localtz).r
        /\ pc = "returned" /\ response # NoResponse /\ ErrorStatus(response.status_code) =>
            /\ result.k = "raise"
            /\ trace = SubSeq(Steps, 1, 3)

\* C3 witness: get_activities returned the decoded body of its single response
C3_Witness ==
    /\ pc = "returned" /\ call.fn = "get_activities"
    /\ result.k = "return" /\ result.v.k = "obj"
    /\ session.requests = 1
    /\ response.status_code = 399

\* an opening <title>: what "the body contains a <title> tag" says
HasTitleTag(txt) == \E i \in 1..Len(txt) : txt[i] = TITLE_OPEN
\* an opening tag / a closing tag after it on the same line
IsElement(txt, open, shut, i, j) ==
    /\ i \in 1..Len(txt) /\ j \in 1..Len(txt) /\ i < j
    /\ txt[i] = open /\ txt[j] = shut
    /\ \A x \in (i + 1)..(j - 1) : txt[x] # NEWLINE
HasElement(txt, open, shut) ==
    \E i \in 1..Len(txt), j \in 1..Len(txt) : IsElement(txt, open, shut, i, j)
Unescaped(toks) == [i \in 1..Len(toks) |-> IF toks[i] = AMP_ENTITY THEN "&" ELSE toks[i]]
\* field is the (unescaped) content of such an element, or empty when there is none
FieldOf(txt, open, shut, field, unesc) ==
    IF HasElement(txt, open, shut)
    THEN \E i \in 1..Len(txt), j \in 1..Len(txt) :
            /\ IsElement(txt, open, shut, i, j)
            /\ field = (IF unesc THEN Unescaped(SubSeq(txt, i + 1, j - 1))
                        ELSE SubSeq(txt, i + 1, j - 1))
    ELSE field = << >>
\* the status form, with its label and its payload
StatusForm(msg, r) ==
    /\ msg.form = "status"
    /\ msg.status_code = r.status_code
    /\ msg.request_info = r.request
    /\ msg.error_type = "Client Error" <=> r.status_code < 500
    /\ msg.error_type = "Server Error" <=> r.status_code >= 500
    /\ msg.payload = (IF r.body.k = "json" THEN [k |-> "json", v |-> r.body.v]
                      ELSE [k |-> "text", toks |-> r.body.toks])
HtmlForm(msg, r) ==
    /\ msg.form = "html"
    /\ msg.request_info = r.request
    /\ FieldOf(text(r), TITLE_OPEN, TITLE_CLOSE, msg.title, FALSE)
    /\ FieldOf(text(r), MESSAGE_OPEN, P_CLOSE, msg.reasons, TRUE)
    /\ FieldOf(text(r), DESCRIPTION_OPEN, P_CLOSE, msg.details, TRUE)

\* C4 as stated: the HTML form exactly when the body contains a <title> tag
C4_Original_HtmlFormIffTitleTag ==
    pc = "returned" /\ call.fn = "check_response" /\ result.k = "raise" =>
        IF HasTitleTag(text(call.response))
        THEN HtmlForm(result.msg, call.response)
        ELSE StatusForm(result.msg, call.response)

\* C4: for a status in 400..599 the message has the HTML form (title, message,
\* description; an empty text for a missing Message or Description paragraph)
\* exactly when the body holds an opening <title> with a closing </title> after
\* it on the same line; otherwise it has the status form, carrying the decoded
\* JSON when the body is JSON and the raw text when not, labelled "Client
\* Error" exactly when the status is below 500 and "Server Error" otherwise.
C4_MessageFormByFirstStrategy ==
    pc = "returned" /\ call.fn = "check_response" /\ ErrorStatus(call.response.status_code) =>
        /\ result.k = "raise"
        /\ IF HasElement(text(call.response), TITLE_OPEN, TITLE_CLOSE)
           THEN HtmlForm(result.msg, call.response)
           ELSE StatusForm(result.msg, call.response)

\* C4 witness: a 404 with a title and no Message paragraph: HTML form, empty message
C4_Witness ==
    /\ pc = "returned" /\ call.fn = "check_response"
    /\ call.response.status_code = 404
    /\ call.response.body = TextBody(<<TITLE_OPEN, "Not Found", TITLE_CLOSE, DESCRIPTION_OPEN, "details", P_CLOSE>>)
    /\ result.k = "raise" /\ result.msg.form = "html"
    /\ result.msg.title = <<"Not Found">>
    /\ result.msg.reasons = << >>
    /\ result.msg.details = <<"details">>

\* the datetime_range a direct call of prepare_params was given
RangeOf(c) == Arg(c.args, "datetime_range", DEFAULT_RANGE)

\* C5 as stated: for every datetime_range, prepare_params returns `from` exactly
\* when the lower bound is not None and `to` exactly when the upper bound is not
\* None, each holding prepare_timestamp of its bound (calls that override
\* `from` or `to` by a keyword argument are left out).
C5_FromToIffBoundNonNull ==
    pc = "returned" /\ call.fn = "prepare_params" /\ result.k = "return"
    /\ "from" \notin DOMAIN call.kwargs =>
        /\ "from" \in DOMAIN result.v <=> RangeOf(call)[1] # None
        /\ "to" \in DOMAIN result.v <=> RangeOf(call)[2] # None
        /\ "from" \in DOMAIN result.v =>
              Return(result.v["from"].n) = prepare_timestamp(RangeOf(call)[1], localtz)
        /\ "to" \in DOMAIN result.v =>
              Return(result.v["to"].n) = prepare_timestamp(RangeOf(call)[2], localtz)

\* C6 as stated: limit, offset and order are always in the mapping prepare_params
\* returns, and when not supplied offset is 0 and limit is LIMIT_MAX
C6_Original_DefaultLimitIsLimitMax ==
    pc = "returned" /\ call.fn = "prepare_params" /\ result.k = "return" =>
        /\ {"limit", "offset", "order"} \subseteq DOMAIN result.v
        /\ "offset" \notin DOMAIN call.args => result.v["offset"] = IntVal(0)
        /\ "limit" \notin DOMAIN call.args => result.v["limit"] = IntVal(LIMIT_MAX)

\* C6: limit, offset and order are always in the mapping prepare_params returns,
\* whatever the arguments and overrides, holding the caller's values when
\* supplied; when not supplied offset is 0 and limit is 100, the default of
\* prepare_params itself.  LIMIT_MAX is the default of get_activities and
\* get_intervals, which hand it to prepare_params as the limit.
C6_KeysPresentDefaultLimit100 ==
    /\ pc = "returned" /\ call.fn = "prepare_params" /\ result.k = "return" =>
        /\ {"limit", "offset", "order"} \subseteq DOMAIN result.v
        /\ result.v["offset"] = Arg(call.args, "offset", IntVal(0))
        /\ result.v["limit"] = Arg(call.args, "limit", IntVal(100))
        /\ result.v["order"] = Arg(call.args, "order", StrVal("desc"))
    /\ call.fn \in {"get_activities", "get_intervals"} /\ params # NoParams =>
        /\ {"limit", "offset", "order"} \subseteq DOMAIN params
        /\ params["offset"] = IntVal(0)
        /\ params["limit"] = Arg(call.args, "limit", IntVal(LIMIT_MAX))

\* C6 witness: neither limit nor offset supplied, an override given
C6_Witness ==
    /\ pc = "returned" /\ call.fn = "prepare_params"
    /\ call.args = << >> /\ call.kwargs = [foo |-> IntVal(1)]
    /\ result.k = "return"
    /\ result.v["limit"] = IntVal(100)
    /\ "foo" \in DOMAIN result.v

\* the values Python takes as false among the decoded JSON values
Falsy == {JNull, JBool(FALSE), JNum(0), JStr(""), JArr(<< >>), JObj(<< >>)}
\* the mapping response.json(**kwargs) gave decode_response in a direct call
DecodedOf(c) == json_kwargs(c.response, c.hook, localtz).r

\* C7: decode_response returns the decoded mapping without its '' key when that
\* key is present with a false value, and with exactly the keys decoded
\* otherwise (a true value under '' is kept); every key returned holds the value
\* decoded.
C7_EmptyKeyRemovedIffFalsy ==
    pc = "returned" /\ call.fn = "decode_response"
    /\ DecodedOf(call).k = "return" /\ DecodedOf(call).v.k = "obj" =>
        LET decoded == DecodedOf(call).v.o
        IN  /\ result.k = "return" /\ result.v.k = "obj"
            /\ DOMAIN result.v.o =
                  (IF "" \in DOMAIN decoded /\ decoded[""] \in Falsy
                   THEN DOMAIN decoded \ {""} ELSE DOMAIN decoded)
            /\ \A key \in DOMAIN result.v.o : result.v.o[key] = decoded[key]

\* C7 witness: a true value under '' was kept, beside other keys
C7_Witness ==
    /\ pc = "returned" /\ call.fn = "decode_response" /\ call.hook = NoHook
    /\ call.response.body.k = "json" /\ call.response.body.v.k = "obj"
    /\ DOMAIN call.response.body.v.o = {"", "intervals", "meta"}
    /\ call.response.body.v.o[""] = JBool(TRUE)
    /\ result = Return(call.response.body.v)

\* a mapping returned by decode_response or by one of the operations
ReturnedMapping ==
    /\ pc = "returned" /\ (call.fn = "decode_response" \/ Scoped)
    /\ result.k = "return" /\ result.v.k = "obj"

\* C8 as stated: no mapping returned has '' as a top-level key
C8_Original_NoEmptyKeyReturned ==
    ReturnedMapping => "" \notin DOMAIN result.v.o

\* C8: no mapping returned by decode_response, and so by get_types,
\* get_activities or get_intervals, has '' as a top-level key with a false
\* value: a '' key that is returned holds a true value.
C8_NoFalsyEmptyKeyReturned ==
    ReturnedMapping /\ "" \in DOMAIN result.v.o => result.v.o[""] \notin Falsy

\* C8 witness: an operation was answered '' with false, and returned the mapping without it
C8_Witness ==
    /\ pc = "returned" /\ call.fn = "get_types"
    /\ response # NoResponse
    /\ response.body.k = "json" /\ response.body.v.k = "obj"
    /\ "" \in DOMAIN response.body.v.o
    /\ response.body.v.o[""] = JBool(FALSE)
    /\ result.k = "return" /\ "" \notin DOMAIN result.v.o
    /\ "intervals" \in DOMAIN result.v.o

\* out is the value `a` with every object in it, at any depth, transformed:
\* from/to into datetimes of their epoch seconds in tz, an empty comment into
\* None, type into typeGuid; any other field as it was (its own objects transformed)
RECURSIVE Transformed(_, _, _)
Transformed(a, out, tz) ==
    CASE a.k = "arr" ->
            /\ out.k = "arr" /\ Len(out.a) = Len(a.a)
            /\ \A i \in 1..Len(a.a) : Transformed(a.a[i], out.a[i], tz)
      [] a.k = "obj" ->
            /\ out.k = "obj"
            /\ DOMAIN out.o = (DOMAIN a.o \ {"type"})
                              \cup (IF "type" \in DOMAIN a.o THEN {"typeGuid"} ELSE {})
            /\ \A key \in DOMAIN a.o :
                CASE key \in {"from", "to"} ->
                        /\ out.o[key].k = "datetime"
                        /\ out.o[key].d.tz = tz
                        /\ timestamp(out.o[key].d, localtz) = [sec |-> a.o[key].n, us |-> 0]
                  [] key = "comment" ->
                        out.o[key] = (IF a.o[key] = JStr("") THEN JNull ELSE a.o[key])
                  [] key = "type" ->
                        out.o["typeGuid"] = a.o[key].o["guid"]
                  [] key = "typeGuid" /\ "type" \in DOMAIN a.o -> TRUE
                  [] OTHER -> Transformed(a.o[key], out.o[key], tz)
      [] OTHER -> out = a

\* the body without the '' key, when decode_response removed that key
WithoutStripped(body, out) ==
    IF body.k = "obj" /\ out.k = "obj" /\ "" \in DOMAIN body.o /\ "" \notin DOMAIN out.o
    THEN JObj([x \in DOMAIN body.o \ {""} |-> body.o[x]])
    ELSE body

\* C9: what decoding an intervals response returns is the body with every JSON
\* object in it, at any depth, transformed: from and to are datetimes of their
\* epoch seconds (in the timezone taken from the datetime_range), a comment
\* equal to '' is None, a type object is replaced by typeGuid holding its guid,
\* and a non-empty comment and every other field are unchanged.
C9_EveryObjectTransformed ==
    /\ pc = "returned" /\ call.fn = "decode_response" /\ call.hook # NoHook
       /\ result.k = "return" =>
            Transformed(WithoutStripped(call.response.body.v, result.v), result.v,
                        _extract_tzinfo_4decode(call.hook.datetime_range).r.v)
    /\ pc = "returned" /\ call.fn = "get_intervals" /\ result.k = "return" =>
            Transformed(WithoutStripped(response.body.v, result.v), result.v,
                        _extract_tzinfo_4decode(RangeOf(call)).r.v)

\* C9 witness: a record two levels down with from, to, an empty comment and a type
C9_Witness ==
    /\ pc = "returned" /\ call.fn = "decode_response" /\ call.hook # NoHook
    /\ result.k = "return" /\ result.v.k = "obj"
    /\ "intervals" \in DOMAIN result.v.o /\ "meta" \in DOMAIN result.v.o
    /\ Len(result.v.o["intervals"].a) = 1
    /\ LET rec == result.v.o["intervals"].a[1].o
       IN  /\ DOMAIN rec = {"guid", "from", "to", "comment", "typeGuid"}
           /\ rec["comment"] = JNull
           /\ rec["typeGuid"] = JStr("X")
           /\ rec["from"].k = "datetime"
    /\ result.v.o["meta"].o["page"].o["comment"] = JNull

\* mathematical floor of sec + us / 10^6 (0 <= us < 10^6)
Floor(ts) == ts.sec

\* what the reference of C10 gives for a time value; TRUE where it says nothing
\* (a string that is not ISO-8601, a float)
AgreesWithReference(time, res) ==
    CASE time.k = "isostr" /\ time.valid -> res = Return(Floor(timestamp(time.iso, localtz)))
      [] time.k = "datetime" -> res = Return(Floor(timestamp(time.d, localtz)))
      [] time.k = "int" -> res = Return(time.n)
      [] time.k = "bool" -> res = Return(IF time.b THEN 1 ELSE 0)
      [] time.k \in {"list", "none"} -> res = Raise("TypeError")
      [] OTHER -> TRUE

\* C10 as stated: prepare_timestamp returns the floor of the epoch seconds of an
\* ISO-8601 string or a datetime, an integer-like value unchanged, and raises
\* TypeError for a value of another type.
C10_PrepareTimestampIsFloor ==
    pc = "returned" /\ call.fn = "prepare_timestamp" =>
        AgreesWithReference(call.time, result)

\* the timezone information a bound of the range carries: that of an aware
\* datetime or of an ISO-8601 string with an offset; none for None, an
\* integer-like value or a naive time
Carries(bound) ==
    CASE bound.k = "datetime" -> bound.d.tz
      [] bound.k = "isostr" /\ bound.valid -> bound.iso.tz
      [] OTHER -> NoTz

\* both bounds carry timezone information
BothAware(range) == Carries(range[1]) # NoTz /\ Carries(range[2]) # NoTz

\* the timezone C11 names for a range
ChosenTz(range) ==
    IF BothAware(range) THEN Carries(range[1])
    ELSE IF Carries(range[1]) # NoTz THEN Carries(range[1])
    ELSE IF Carries(range[2]) # NoTz THEN Carries(range[2])
    ELSE NoTz

\* the number of JSON objects in a value, at any depth
RECURSIVE Objects(_)
Objects(v) ==
    CASE v.k = "arr" ->
            LET RECURSIVE Sum(_)
                Sum(i) == IF i = 0 THEN 0 ELSE Objects(v.a[i]) + Sum(i - 1)
            IN  Sum(Len(v.a))
      [] v.k = "obj" ->
            LET RECURSIVE SumOver(_)
                SumOver(keys) ==
                    IF keys = {} THEN 0
                    ELSE LET key == CHOOSE x \in keys : TRUE
                         IN  Objects(v.o[key]) + SumOver(keys \ {key})
            IN  1 + SumOver(DOMAIN v.o)
      [] OTHER -> 0

\* what C11 says of a decoding with the hook of get_intervals: every from/to
\* of the value returned is in the timezone chosen from the range, and the
\* warning ran once for each object converted when both bounds carry different
\* timezones, and never otherwise
TimezoneChosen(range, body, res, warned) ==
    /\ res.k = "return" =>
            /\ Transformed(WithoutStripped(body, res.v), res.v, ChosenTz(range))
            /\ warned = (IF BothAware(range) /\ Carries(range[1]) # Carries(range[2])
                         THEN Objects(body) ELSE 0)
    /\ warned > 0 => BothAware(range) /\ Carries(range[1]) # Carries(range[2])

\* C11: get_intervals converts from/to of every object of one response in one
\* timezone taken from datetime_range: the lower bound's when both bounds carry
\* timezone information, with a warning for each conversion exactly when the
\* two timezones differ; the timezone of the one bound that carries it when
\* only one does; none (naive local time) when neither does.
C11_TimezoneFromDatetimeRange ==
    /\ pc = "returned" /\ call.fn = "decode_response" /\ call.hook # NoHook =>
            TimezoneChosen(call.hook.datetime_range, call.response.body.v, result, warns)
    /\ pc = "returned" /\ call.fn = "get_intervals" /\ response # NoResponse
       /\ response.body.k = "json" =>
            TimezoneChosen(RangeOf(call), response.body.v, result, warns)

\* C11 witness: get_intervals with a lower bound at +01:00 and an upper bound
\* at UTC returned a record whose from and to are at +01:00, and warned
C11_Witness ==
    /\ pc = "returned" /\ call.fn = "get_intervals"
    /\ Carries(RangeOf(call)[1]) = "+01:00" /\ Carries(RangeOf(call)[2]) = "UTC"
    /\ result.k = "return" /\ result.v.k = "obj"
    /\ "intervals" \in DOMAIN result.v.o
    /\ Len(result.v.o["intervals"].a) = 1
    /\ LET rec == result.v.o["intervals"].a[1].o
       IN  /\ rec["from"].k = "datetime" /\ rec["from"].d.tz = "+01:00"
           /\ rec["to"].k = "datetime" /\ rec["to"].d.tz = "+01:00"
    /\ warns > 0

=============================================================================
